---- MODULE Spec2Model ----
(***************************************************************************)
(* Model of the ExpenseForwarder conversion and submission pipeline:       *)
(* ExpenseConverter (participant resolution, payer determination, equal    *)
(* split, validation), the ParsedExpense validators, the SplitwiseClient   *)
(* look-ups it uses and ExpenseForwarder (construction, authentication and *)
(* process_email).  Spec is one forwarder processing e-mails;              *)
(* EmptyPrincipalSpec is the same forwarder on a ledger that returns an    *)
(* empty user record; ConfiguredSpec is the same forwarder with and        *)
(* without a configured default group; ValidationSpec is validate_expense  *)
(* called on a hand-constructed record.                                    *)
(*                                                                         *)
(* Encodings.                                                              *)
(*  - A Python str is a sequence of one-character strings.                 *)
(*  - A Python float is an IEEE-754 binary64 value, kept exactly as        *)
(*    [m |-> 53 bits, most significant first, e |-> exponent of the last   *)
(*    bit]; zero is [m |-> <<>>, e |-> 0].  Bits are kept in sequences     *)
(*    because a 53-bit significand does not fit the checker's integers.    *)
(*  - A two-decimal money string ("3.33") is the integer number of cents   *)
(*    it denotes (333); formatting a float with :.2f is the rounding that  *)
(*    produces that number.  validate_expense reads str fields that may    *)
(*    hold any text, so it works on the text; ExpenseText gives the text   *)
(*    of a record the converter built.                                     *)
(*  - A candidate amount is written in thousandths (15 is the literal      *)
(*    0.015), and becomes the float nearest to that decimal.               *)
(***************************************************************************)
EXTENDS Integers, Sequences, FiniteSets, TLC

(***************************************************************************)
(* Binary64 arithmetic on bit sequences                                    *)
(***************************************************************************)
Precision == 53
\* Exponent of the last bit of the smallest subnormal; no quotient is extended
\* below it.
MinExponent == -1074

RECURSIVE IntToBits(_)
IntToBits(n) ==
  IF n = 0 THEN <<>> ELSE Append(IntToBits(n \div 2), n % 2)

RECURSIVE BitsToInt(_)
BitsToInt(b) ==
  IF b = <<>> THEN 0
  ELSE 2 * BitsToInt(SubSeq(b, 1, Len(b) - 1)) + b[Len(b)]

Zeros(k) == [i \in 1..k |-> 0]

RECURSIVE Pow2(_)
Pow2(k) == IF k = 0 THEN 1 ELSE 2 * Pow2(k - 1)

RECURSIVE StripZeros(_)
StripZeros(b) ==
  IF b = <<>> THEN <<>>
  ELSE IF b[1] = 1 THEN b ELSE StripZeros(Tail(b))

\* b + 1 on a bit sequence of fixed length; an all-ones input wraps to zeros.
RECURSIVE IncBits(_)
IncBits(b) ==
  IF b = <<>> THEN <<>>
  ELSE IF b[Len(b)] = 0 THEN Append(SubSeq(b, 1, Len(b) - 1), 1)
  ELSE Append(IncBits(SubSeq(b, 1, Len(b) - 1)), 0)

\* Round-to-nearest, ties-to-even, of (b * 2^e, plus a non-zero tail when
\* sticky) to a 53-bit significand.  b has no leading zero.
RoundBits(b, e, sticky) ==
  IF b = <<>> THEN [m |-> <<>>, e |-> 0]
  ELSE IF Len(b) <= Precision
  THEN [m |-> b \o Zeros(Precision - Len(b)), e |-> e - (Precision - Len(b))]
  ELSE LET keep  == SubSeq(b, 1, Precision)
           guard == b[Precision + 1]
           rest  == sticky \/ \E i \in (Precision + 2)..Len(b) : b[i] = 1
           e2    == e + (Len(b) - Precision)
           up    == guard = 1 /\ (rest \/ keep[Precision] = 1)
       IN  IF ~up THEN [m |-> keep, e |-> e2]
           ELSE IF \A i \in 1..Precision : keep[i] = 1
           THEN [m |-> <<1>> \o Zeros(Precision - 1), e |-> e2 + 1]
           ELSE [m |-> IncBits(keep), e |-> e2]

\* Long division of the bit sequence m by the small integer n: quotient bits
\* (no leading zero) and remainder.
RECURSIVE DivLoop(_, _, _, _, _)
DivLoop(m, n, i, rem, q) ==
  IF i > Len(m) THEN [q |-> q, rem |-> rem]
  ELSE LET r == 2 * rem + m[i]
       IN  IF r >= n THEN DivLoop(m, n, i + 1, r - n, Append(q, 1))
           ELSE IF q = <<>> THEN DivLoop(m, n, i + 1, r, q)
           ELSE DivLoop(m, n, i + 1, r, Append(q, 0))

\* Continue the division below the last bit until the quotient has two bits
\* more than the significand or the division is exact.
RECURSIVE DivExt(_, _, _, _)
DivExt(q, rem, e, n) ==
  IF rem = 0 \/ Len(q) >= Precision + 2 \/ e < MinExponent
  THEN [q |-> q, rem |-> rem, e |-> e]
  ELSE LET r == 2 * rem
       IN  IF r >= n THEN DivExt(Append(q, 1), r - n, e - 1, n)
           ELSE IF q = <<>> THEN DivExt(q, r, e - 1, n)
           ELSE DivExt(Append(q, 0), r, e - 1, n)

\* x / n for a float x and a positive int n, correctly rounded.
FloatDiv(x, n) ==
  IF x.m = <<>> THEN x
  ELSE LET d   == DivLoop(x.m, n, 1, 0, <<>>)
           ext == DivExt(d.q, d.rem, x.e, n)
       IN  RoundBits(ext.q, ext.e, ext.rem # 0)

\* The float nearest to the rational p / q (a decimal literal, float("3.33")).
FloatOfRatio(p, q) ==
  IF p = 0 THEN [m |-> <<>>, e |-> 0]
  ELSE LET d   == DivLoop(IntToBits(p), q, 1, 0, <<>>)
           ext == DivExt(d.q, d.rem, 0, q)
       IN  RoundBits(ext.q, ext.e, ext.rem # 0)

\* b * k for a small k, from the least significant bit up.
RECURSIVE MulLoop(_, _, _, _)
MulLoop(m, k, i, carry) ==
  IF i = 0 THEN IntToBits(carry)
  ELSE LET d == m[i] * k + carry
       IN  IF d % 2 = 1 THEN Append(MulLoop(m, k, i - 1, d \div 2), 1)
           ELSE Append(MulLoop(m, k, i - 1, d \div 2), 0)

\* The integer nearest to b * 2^e, ties to even.
RoundHalfEven(b, e) ==
  IF e >= 0 THEN BitsToInt(b) * Pow2(e)
  ELSE LET f    == -e
           ib   == IF Len(b) > f THEN SubSeq(b, 1, Len(b) - f) ELSE <<>>
           fr   == IF Len(b) >= f THEN SubSeq(b, Len(b) - f + 1, Len(b))
                   ELSE Zeros(f - Len(b)) \o b
           ip   == BitsToInt(ib)
           rest == \E i \in 2..f : fr[i] = 1
       IN  ip + (IF fr[1] = 1 /\ (rest \/ ip % 2 = 1) THEN 1 ELSE 0)

\* f"{x:.2f}": the decimal with two fractional digits nearest to the exact
\* value of x, as a number of cents.
Format2f(x) ==
  IF x.m = <<>> THEN 0
  ELSE RoundHalfEven(MulLoop(x.m, 100, Len(x.m), 0), x.e)

\* The float a candidate amount written in thousandths denotes.
AmountFloat(milli) == FloatOfRatio(milli, 1000)

\* The digits of both operands on the exponent of the smaller one, padded to
\* one length.
Aligned(x, y) ==
  LET e0 == IF x.e < y.e THEN x.e ELSE y.e
      ax == x.m \o Zeros(x.e - e0)
      ay == y.m \o Zeros(y.e - e0)
      n  == IF Len(ax) > Len(ay) THEN Len(ax) ELSE Len(ay)
  IN  [a |-> Zeros(n - Len(ax)) \o ax, b |-> Zeros(n - Len(ay)) \o ay, e |-> e0]

RECURSIVE AddLoop(_, _, _, _)
AddLoop(a, b, i, carry) ==
  IF i = 0 THEN (IF carry = 1 THEN <<1>> ELSE <<>>)
  ELSE LET d == a[i] + b[i] + carry
       IN  IF d >= 2 THEN Append(AddLoop(a, b, i - 1, 1), d - 2)
           ELSE Append(AddLoop(a, b, i - 1, 0), d)

\* a - b for a >= b.
RECURSIVE SubLoop(_, _, _, _)
SubLoop(a, b, i, borrow) ==
  IF i = 0 THEN <<>>
  ELSE LET d == a[i] - b[i] - borrow
       IN  IF d < 0 THEN Append(SubLoop(a, b, i - 1, 1), d + 2)
           ELSE Append(SubLoop(a, b, i - 1, 0), d)

LessBits(a, b) ==
  \E i \in 1..Len(a) : a[i] < b[i] /\ \A j \in 1..(i - 1) : a[j] = b[j]

\* x < y, x + y and abs(x - y) for non-negative floats.
FloatLess(x, y) ==
  IF y.m = <<>> THEN FALSE
  ELSE IF x.m = <<>> THEN TRUE
  ELSE LET al == Aligned(x, y) IN LessBits(al.a, al.b)

FloatAdd(x, y) ==
  IF x.m = <<>> THEN y
  ELSE IF y.m = <<>> THEN x
  ELSE LET al == Aligned(x, y)
       IN  RoundBits(StripZeros(AddLoop(al.a, al.b, Len(al.a), 0)), al.e, FALSE)

FloatAbsDiff(x, y) ==
  IF x.m = <<>> THEN y
  ELSE IF y.m = <<>> THEN x
  ELSE LET al == Aligned(x, y)
       IN  IF LessBits(al.a, al.b)
           THEN RoundBits(StripZeros(SubLoop(al.b, al.a, Len(al.a), 0)), al.e, FALSE)
           ELSE RoundBits(StripZeros(SubLoop(al.a, al.b, Len(al.a), 0)), al.e, FALSE)

(***************************************************************************)
(* Strings                                                                 *)
(***************************************************************************)
UpperLetters == <<"A", "B", "C", "D", "E", "F", "G", "H", "I", "J", "K", "L", "M",
                  "N", "O", "P", "Q", "R", "S", "T", "U", "V", "W", "X", "Y", "Z">>
LowerLetters == <<"a", "b", "c", "d", "e", "f", "g", "h", "i", "j", "k", "l", "m",
                  "n", "o", "p", "q", "r", "s", "t", "u", "v", "w", "x", "y", "z">>
Whitespace == {" ", "\t", "\n"}

\* The lower-case letter of each upper-case letter.
ToLower ==
  [c \in {UpperLetters[i] : i \in 1..Len(UpperLetters)} |->
     LowerLetters[CHOOSE i \in 1..Len(UpperLetters) : UpperLetters[i] = c]]

LowerChar(c) == IF c \in DOMAIN ToLower THEN ToLower[c] ELSE c

\* str.lower()
Lower(s) == [i \in 1..Len(s) |-> LowerChar(s[i])]

RECURSIVE LStrip(_)
LStrip(s) ==
  IF s # <<>> /\ s[1] \in Whitespace THEN LStrip(Tail(s)) ELSE s

RECURSIVE RStrip(_)
RStrip(s) ==
  IF s # <<>> /\ s[Len(s)] \in Whitespace
  THEN RStrip(SubSeq(s, 1, Len(s) - 1)) ELSE s

\* str.strip()
Strip(s) == RStrip(LStrip(s))

\* Optional values: None is the empty sequence, a present value v is <<v>>.
None == <<>>
Some(v) == <<v>>

\* The upper-case letter of each lower-case letter.
ToUpper ==
  [c \in {LowerLetters[i] : i \in 1..Len(LowerLetters)} |->
     UpperLetters[CHOOSE i \in 1..Len(LowerLetters) : LowerLetters[i] = c]]

UpperChar(c) == IF c \in DOMAIN ToUpper THEN ToUpper[c] ELSE c

\* str.upper()
Upper(s) == [i \in 1..Len(s) |-> UpperChar(s[i])]

DigitChars == <<"0", "1", "2", "3", "4", "5", "6", "7", "8", "9">>

\* The value of each digit character.
DigitValue ==
  [c \in {DigitChars[i] : i \in 1..Len(DigitChars)} |->
     (CHOOSE i \in 1..Len(DigitChars) : DigitChars[i] = c) - 1]

RECURSIVE Pow10(_)
Pow10(k) == IF k = 0 THEN 1 ELSE 10 * Pow10(k - 1)

\* The decimal digits of n >= 0, at least width of them.
RECURSIVE DigitsOf(_, _)
DigitsOf(n, width) ==
  IF n < 10 /\ width <= 1 THEN <<DigitChars[n + 1]>>
  ELSE Append(DigitsOf(n \div 10, width - 1), DigitChars[(n % 10) + 1])

\* The text f"{x:.2f}" writes for the number of cents Format2f computes.
MoneyText(cents) ==
  DigitsOf(cents \div 100, 1) \o <<".">> \o DigitsOf(cents % 100, 2)

(***************************************************************************)
(* float(str) and the arithmetic of validate_expense                       *)
(*                                                                         *)
(* A float that may be negative, infinite or NaN is [kind, neg, abs]: kind *)
(* is "num", "inf" or "nan", abs the magnitude of a "num".  float(s) that  *)
(* raises ValueError is kind "raise".                                      *)
(***************************************************************************)
ZeroFloat == [m |-> <<>>, e |-> 0]
PyNum(neg, abs) == [kind |-> "num", neg |-> neg, abs |-> abs]
PyInf(neg) == [kind |-> "inf", neg |-> neg, abs |-> ZeroFloat]
PyNaN == [kind |-> "nan", neg |-> FALSE, abs |-> ZeroFloat]
PyRaise == [kind |-> "raise", neg |-> FALSE, abs |-> ZeroFloat]

\* digits, with at most one point and at least one digit ("12", "1.50", ".5",
\* "1.").
IsDecimalText(body) ==
  /\ \A i \in 1..Len(body) : body[i] = "." \/ body[i] \in DOMAIN DigitValue
  /\ Cardinality({i \in 1..Len(body) : body[i] = "."}) <= 1
  /\ \E i \in 1..Len(body) : body[i] \in DOMAIN DigitValue

\* The integer the digits of body denote, the point left out.
RECURSIVE DigitsValue(_, _, _)
DigitsValue(body, i, acc) ==
  IF i > Len(body) THEN acc
  ELSE IF body[i] = "." THEN DigitsValue(body, i + 1, acc)
  ELSE DigitsValue(body, i + 1, 10 * acc + DigitValue[body[i]])

\* The number of digits after the point.
FractionLength(body) ==
  IF \E i \in 1..Len(body) : body[i] = "."
  THEN Len(body) - (CHOOSE i \in 1..Len(body) : body[i] = ".")
  ELSE 0

\* float(s): surrounding whitespace and a sign are allowed; "nan", "inf" and
\* "infinity" in any case are values; a decimal text is the float nearest to
\* it; anything else raises.  (Exponents and digit-group underscores, which
\* float also reads, occur in no text of the input sets.)
PyFloat(s) ==
  LET t      == Strip(s)
      signed == t # <<>> /\ t[1] \in {"+", "-"}
      neg    == t # <<>> /\ t[1] = "-"
      body   == IF signed THEN Tail(t) ELSE t
  IN  IF Lower(body) = <<"n", "a", "n">> THEN PyNaN
      ELSE IF Lower(body) \in {<<"i", "n", "f">>,
                               <<"i", "n", "f", "i", "n", "i", "t", "y">>}
      THEN PyInf(neg)
      ELSE IF IsDecimalText(body)
      THEN PyNum(neg, FloatOfRatio(DigitsValue(body, 1, 0), Pow10(FractionLength(body))))
      ELSE PyRaise

\* x + y.
PyAdd(x, y) ==
  IF x.kind = "nan" \/ y.kind = "nan" THEN PyNaN
  ELSE IF x.kind = "inf" /\ y.kind = "inf"
  THEN (IF x.neg = y.neg THEN x ELSE PyNaN)
  ELSE IF x.kind = "inf" THEN x
  ELSE IF y.kind = "inf" THEN y
  ELSE IF x.neg = y.neg THEN PyNum(x.neg, FloatAdd(x.abs, y.abs))
  ELSE IF FloatLess(x.abs, y.abs) THEN PyNum(y.neg, FloatAbsDiff(x.abs, y.abs))
  ELSE IF FloatLess(y.abs, x.abs) THEN PyNum(x.neg, FloatAbsDiff(x.abs, y.abs))
  ELSE PyNum(FALSE, ZeroFloat)

\* x - y.
PySub(x, y) == PyAdd(x, [y EXCEPT !.neg = ~y.neg])

\* x <= 0.
PyNotPositive(x) ==
  IF x.kind = "nan" THEN FALSE
  ELSE IF x.kind = "inf" THEN x.neg
  ELSE x.neg \/ x.abs = ZeroFloat

\* abs(x) > tolerance.
PyAbsExceeds(x, tolerance) ==
  IF x.kind = "nan" THEN FALSE
  ELSE IF x.kind = "inf" THEN TRUE
  ELSE FloatLess(tolerance, x.abs)

(***************************************************************************)
(* The ledger's directory (external data) and the principal                *)
(***************************************************************************)
\* An identity with no keys (an empty dict); it is falsy in Python.
EmptyUser == [id |-> 0, first_name |-> <<>>, last_name |-> <<>>, email |-> <<>>]

Principal ==
  [id |-> 1, first_name |-> <<"M", "i", "k", "e">>, last_name |-> <<"R", "a", "y">>,
   email |-> <<"m", "@", "x">>]

\* What get_friends returns, in the ledger's order.
Friends ==
  << [id |-> 2, first_name |-> <<"J", "o", "h", "n">>, last_name |-> <<"D", "o", "e">>,
      email |-> <<"j", "d", "@", "x">>],
     [id |-> 3, first_name |-> <<"S", "a", "r", "a", "h">>, last_name |-> <<>>,
      email |-> <<"S", "@", "x">>],
     [id |-> 4, first_name |-> <<"J", "o", "h", "n">>, last_name |-> <<"R", "o", "e">>,
      email |-> <<"j", "r", "@", "x">>],
     [id |-> 1, first_name |-> <<"M", "i", "k", "e">>, last_name |-> <<"R", "a", "y">>,
      email |-> <<"m", "@", "x">>] >>

(***************************************************************************)
(* SplitwiseClient look-ups                                                *)
(***************************************************************************)
\* f"{first_name} {last_name}".strip() on the lower-cased name parts.
FullName(user) ==
  Strip(Lower(user.first_name) \o <<" ">> \o Lower(user.last_name))

\* The test find_user_by_name_or_email applies to one friend.
FriendMatches(friend, identifier) ==
  \/ Lower(friend.email) = Lower(identifier)
  \/ Lower(friend.first_name) = Lower(identifier)
  \/ Lower(friend.last_name) = Lower(identifier)
  \/ FullName(friend) = Lower(identifier)

\* find_user_by_name_or_email: the first friend, in list order, that matches.
RECURSIVE FindUserLoop(_, _, _)
FindUserLoop(friends, identifier, i) ==
  IF i > Len(friends) THEN None
  ELSE IF FriendMatches(friends[i], identifier) THEN Some(friends[i])
  ELSE FindUserLoop(friends, identifier, i + 1)

find_user_by_name_or_email(identifier) == FindUserLoop(Friends, identifier, 1)

\* What get_categories returns.
Categories ==
  << [name |-> <<"F", "u", "n">>,
      subcategories |-> << [id |-> 20, name |-> <<"G", "a", "m", "e", "s">>],
                           [id |-> 21, name |-> <<"F", "o", "o", "d">>] >>],
     [name |-> <<"F", "o", "o", "d">>,
      subcategories |-> << [id |-> 12, name |-> <<"G", "r", "o", "c", "e", "r", "i", "e", "s">>],
                           [id |-> 15, name |-> <<"O", "t", "h", "e", "r">>] >>],
     [name |-> <<"B", "i", "l", "l", "s">>,
      subcategories |-> << [id |-> 30, name |-> <<"R", "e", "n", "t">>] >>] >>

\* The first subcategory of subcategories named name (lower-cased), if any.
RECURSIVE FindSubcategory(_, _, _)
FindSubcategory(subcategories, name_lower, i) ==
  IF i > Len(subcategories) THEN None
  ELSE IF Lower(subcategories[i].name) = name_lower THEN Some(subcategories[i].id)
  ELSE FindSubcategory(subcategories, name_lower, i + 1)

\* The loop of find_category_by_name over the categories from i on.
RECURSIVE FindCategoryLoop(_, _, _)
FindCategoryLoop(categories, name_lower, i) ==
  IF i > Len(categories) THEN None
  ELSE LET other == FindSubcategory(categories[i].subcategories, <<"o", "t", "h", "e", "r">>, 1)
           sub   == FindSubcategory(categories[i].subcategories, name_lower, 1)
       IN  IF Lower(categories[i].name) = name_lower /\ other # None THEN other
           ELSE IF sub # None THEN sub
           ELSE FindCategoryLoop(categories, name_lower, i + 1)

find_category_by_name(category_name) ==
  IF category_name = <<>> THEN None
  ELSE FindCategoryLoop(Categories, Lower(category_name), 1)

(***************************************************************************)
(* ExpenseConverter                                                        *)
(***************************************************************************)
\* ResolveLoop as it would be if an identity already in the list were appended
\* again.
RECURSIVE ResolveLoop_NoDedup(_, _, _, _, _)
ResolveLoop_NoDedup(participants, i, resolved_users, lookups, fail_at) ==
  IF i > Len(participants)
  THEN [raised |-> FALSE, resolved_users |-> resolved_users, lookups |-> lookups]
  ELSE IF Strip(participants[i]) = <<>>
  THEN ResolveLoop_NoDedup(participants, i + 1, resolved_users, lookups, fail_at)
  ELSE IF Len(lookups) + 1 = fail_at
  THEN [raised |-> TRUE, resolved_users |-> resolved_users,
        lookups |-> Append(lookups, Strip(participants[i]))]
  ELSE LET user == find_user_by_name_or_email(Strip(participants[i]))
       IN  IF user # None
           THEN ResolveLoop_NoDedup(participants, i + 1, Append(resolved_users, user[1]),
                                    Append(lookups, Strip(participants[i])), fail_at)
           ELSE ResolveLoop_NoDedup(participants, i + 1, resolved_users,
                                    Append(lookups, Strip(participants[i])), fail_at)

\* ResolveLoop as it would be if the loop ended at the first token that is
\* not found.
RECURSIVE ResolveLoop_StopAtUnknown(_, _, _, _, _)
ResolveLoop_StopAtUnknown(participants, i, resolved_users, lookups, fail_at) ==
  IF i > Len(participants)
  THEN [raised |-> FALSE, resolved_users |-> resolved_users, lookups |-> lookups]
  ELSE IF Strip(participants[i]) = <<>>
  THEN ResolveLoop_StopAtUnknown(participants, i + 1, resolved_users, lookups, fail_at)
  ELSE IF Len(lookups) + 1 = fail_at
  THEN [raised |-> TRUE, resolved_users |-> resolved_users,
        lookups |-> Append(lookups, Strip(participants[i]))]
  ELSE LET user == find_user_by_name_or_email(Strip(participants[i]))
       IN  IF user = None
           THEN [raised |-> FALSE, resolved_users |-> resolved_users,
                 lookups |-> Append(lookups, Strip(participants[i]))]
           ELSE IF ~\E k \in 1..Len(resolved_users) : resolved_users[k].id = user[1].id
           THEN ResolveLoop_StopAtUnknown(participants, i + 1,
                                          Append(resolved_users, user[1]),
                                          Append(lookups, Strip(participants[i])), fail_at)
           ELSE ResolveLoop_StopAtUnknown(participants, i + 1, resolved_users,
                                          Append(lookups, Strip(participants[i])), fail_at)

\* The loop of _resolve_participants from token i on.  lookups is the list of
\* identifiers handed to find_user_by_name_or_email so far; the look-up number
\* fail_at (0: none) raises, which ends the loop and the conversion.
RECURSIVE ResolveLoop(_, _, _, _, _)
ResolveLoop(participants, i, resolved_users, lookups, fail_at) ==
  IF i > Len(participants)
  THEN [raised |-> FALSE, resolved_users |-> resolved_users, lookups |-> lookups]
  ELSE IF Strip(participants[i]) = <<>>
  THEN ResolveLoop(participants, i + 1, resolved_users, lookups, fail_at)
  ELSE IF Len(lookups) + 1 = fail_at
  THEN [raised |-> TRUE, resolved_users |-> resolved_users,
        lookups |-> Append(lookups, Strip(participants[i]))]
  ELSE LET user == find_user_by_name_or_email(Strip(participants[i]))
       IN  IF user # None
              /\ ~\E k \in 1..Len(resolved_users) : resolved_users[k].id = user[1].id
           THEN ResolveLoop(participants, i + 1, Append(resolved_users, user[1]),
                            Append(lookups, Strip(participants[i])), fail_at)
           ELSE ResolveLoop(participants, i + 1, resolved_users,
                            Append(lookups, Strip(participants[i])), fail_at)

\* _resolve_participants as it would be if the list did not start with the
\* principal.
_resolve_participants_NoPrincipal(cur_user, participants, fail_at) ==
  ResolveLoop(participants, 1, <<>>, <<>>, fail_at)

_resolve_participants(cur_user, participants, fail_at) ==
  ResolveLoop(participants, 1,
              IF cur_user # EmptyUser THEN <<cur_user>> ELSE <<>>, <<>>, fail_at)

\* _calculate_equal_split as it would be if the payer were left out of the
\* count.
_calculate_equal_split_OthersOnly(total_amount, num_users) ==
  IF num_users <= 1 THEN Format2f(total_amount)
  ELSE Format2f(FloatDiv(total_amount, num_users - 1))

\* total_amount / num_users formatted with two decimals.
_calculate_equal_split(total_amount, num_users) ==
  IF num_users = 0 THEN 0
  ELSE Format2f(FloatDiv(total_amount, num_users))

\* PayerMatches as it would be if paid_by were compared as written.
PayerMatches_CaseSensitive(user, paid_by) ==
  \/ paid_by = Lower(user.first_name)
  \/ paid_by = Lower(user.last_name)
  \/ paid_by = FullName(user)
  \/ paid_by = Lower(user.email)

\* The membership test of _determine_payer for one resolved user.
PayerMatches(user, paid_by) ==
  \/ Lower(paid_by) = Lower(user.first_name)
  \/ Lower(paid_by) = Lower(user.last_name)
  \/ Lower(paid_by) = FullName(user)
  \/ Lower(paid_by) = Lower(user.email)

RECURSIVE PayerLoop(_, _, _, _)
PayerLoop(cur_user, paid_by, resolved_users, i) ==
  IF i > Len(resolved_users) THEN cur_user
  ELSE IF PayerMatches(resolved_users[i], paid_by) THEN resolved_users[i]
  ELSE PayerLoop(cur_user, paid_by, resolved_users, i + 1)

\* paid_by is None or "" : falsy, the loop is not entered.
_determine_payer(cur_user, parsed, resolved_users) ==
  IF parsed.paid_by # None /\ parsed.paid_by[1] # <<>>
  THEN PayerLoop(cur_user, parsed.paid_by[1], resolved_users, 1)
  ELSE cur_user

\* The share lines of the equal branch: SplitwiseUser(user_id, paid_share,
\* owed_share), whose net_balance keeps its default "0.00".
EqualShareLines(parsed, resolved_users, payer) ==
  LET amount_per_user == _calculate_equal_split(parsed.amount, Len(resolved_users))
      total_2f        == Format2f(parsed.amount)
  IN  [i \in 1..Len(resolved_users) |->
         [user_id    |-> resolved_users[i].id,
          paid_share |-> IF resolved_users[i].id = payer.id THEN total_2f ELSE 0,
          owed_share |-> amount_per_user,
          net_balance |-> 0]]

\* _create_splitwise_users as it would be if a policy other than equal were
\* refused.
CreateUsersRec_NoFallback(cur_user, parsed, resolved_users, depth) ==
  IF resolved_users = <<>> \/ parsed.split_type # "equal"
  THEN [raised |-> TRUE, users |-> <<>>, payer |-> None, depth |-> depth]
  ELSE [raised |-> FALSE,
        users  |-> EqualShareLines(parsed, resolved_users,
                                   _determine_payer(cur_user, parsed, resolved_users)),
        payer  |-> Some(_determine_payer(cur_user, parsed, resolved_users)),
        depth  |-> depth]

\* _create_splitwise_users.  depth counts the entries into the function.  It
\* raises on an empty list, and on payer['id'] when the payer is the empty dict.
RECURSIVE CreateUsersRec(_, _, _, _)
CreateUsersRec(cur_user, parsed, resolved_users, depth) ==
  IF resolved_users = <<>>
  THEN [raised |-> TRUE, users |-> <<>>, payer |-> None, depth |-> depth]
  ELSE LET payer == _determine_payer(cur_user, parsed, resolved_users)
       IN  IF parsed.split_type = "equal"
           THEN IF payer = EmptyUser
                THEN [raised |-> TRUE, users |-> <<>>, payer |-> Some(payer),
                      depth |-> depth]
                ELSE [raised |-> FALSE,
                      users  |-> EqualShareLines(parsed, resolved_users, payer),
                      payer  |-> Some(payer), depth |-> depth]
           ELSE CreateUsersRec(cur_user, [parsed EXCEPT !.split_type = "equal"],
                               resolved_users, depth + 1)

_create_splitwise_users(cur_user, parsed, resolved_users) ==
  CreateUsersRec(cur_user, parsed, resolved_users, 1)

\* _format_date: strftime("%Y-%m-%d") of a date [year, month, day], None for
\* no date.
_format_date(date) ==
  IF date # None
  THEN Some(DigitsOf(date[1].year, 4) \o <<"-">> \o DigitsOf(date[1].month, 2)
            \o <<"-">> \o DigitsOf(date[1].day, 2))
  ELSE None

\* _resolve_category as it would be if a category that is not found were
\* given the identifier 0.
_resolve_category_Zero(category, lookup_raises) ==
  IF category = None \/ category[1] = <<>> THEN None
  ELSE IF lookup_raises THEN None
  ELSE IF find_category_by_name(category[1]) = None THEN Some(0)
  ELSE find_category_by_name(category[1])

\* _resolve_category: no look-up for None or "", and a look-up that raises
\* (lookup_raises) is logged and yields None.
_resolve_category(category, lookup_raises) ==
  IF category = None \/ category[1] = <<>> THEN None
  ELSE IF lookup_raises THEN None
  ELSE find_category_by_name(category[1])

\* final_group_id = group_id or config.DEFAULT_GROUP_ID: a group_id of 0 is
\* falsy; default_id is None when the configuration has no default.
final_group_id(group_id, default_id) ==
  IF group_id # 0 THEN Some(group_id) ELSE default_id

\* BuildExpense as it would be if the flag said how the lines were computed.
BuildExpense_FlagOfLines(parsed, splitwise_users, category_id, group_id, default_id) ==
  [cost          |-> Format2f(parsed.amount),
   description   |-> parsed.description,
   details       |-> None,
   currency_code |-> parsed.currency,
   date          |-> _format_date(parsed.date),
   category_id   |-> category_id,
   group_id      |-> final_group_id(group_id, default_id),
   users         |-> splitwise_users,
   split_equally |-> TRUE]

\* The SplitwiseExpense that convert_to_splitwise_expense builds.
BuildExpense(parsed, splitwise_users, category_id, group_id, default_id) ==
  [cost          |-> Format2f(parsed.amount),
   description   |-> parsed.description,
   details       |-> None,
   currency_code |-> parsed.currency,
   date          |-> _format_date(parsed.date),
   category_id   |-> category_id,
   group_id      |-> final_group_id(group_id, default_id),
   users         |-> splitwise_users,
   split_equally |-> parsed.split_type = "equal"]

\* convert_to_splitwise_expense when no collaborator raises and the resolved
\* list is not empty: the record it returns.
convert_to_splitwise_expense(cur_user, parsed, group_id, default_id) ==
  LET resolved == _resolve_participants(cur_user, parsed.participants, 0).resolved_users
  IN  BuildExpense(parsed,
                   _create_splitwise_users(cur_user, parsed, resolved).users,
                   _resolve_category(parsed.category, FALSE),
                   group_id, default_id)

\* One item of expense.dict(exclude_none=True): the key is present only when
\* the field is not None.
DictItem(key, field) ==
  IF field # None THEN key :> field[1] ELSE [k \in {} |-> None]

\* The three keys create_expense keeps of every share line.
UserData(users) ==
  [i \in 1..Len(users) |->
     [user_id    |-> users[i].user_id,
      paid_share |-> users[i].paid_share,
      owed_share |-> users[i].owed_share]]

\* create_expense as it would be if the record were sent as expense.dict():
\* every field, a None for an absent one, the share lines whole.
ExpenseData_AllFields(expense) ==
  [cost          |-> expense.cost,
   description   |-> expense.description,
   details       |-> expense.details,
   currency_code |-> expense.currency_code,
   date          |-> expense.date,
   category_id   |-> expense.category_id,
   group_id      |-> expense.group_id,
   users         |-> expense.users,
   split_equally |-> expense.split_equally]

\* The expense_data that create_expense posts: a function from the keys that
\* are present to their values.
ExpenseData(expense) ==
  ("cost" :> expense.cost)
  @@ ("description" :> expense.description)
  @@ DictItem("details", expense.details)
  @@ ("currency_code" :> expense.currency_code)
  @@ DictItem("date", expense.date)
  @@ DictItem("category_id", expense.category_id)
  @@ DictItem("group_id", expense.group_id)
  @@ ("users" :> UserData(expense.users))
  @@ ("split_equally" :> expense.split_equally)

\* The SplitwiseExpense as text: the strings its cost and share fields hold,
\* and the users list as an Optional.
ExpenseText(expense) ==
  [cost        |-> MoneyText(expense.cost),
   description |-> expense.description,
   users       |-> Some([i \in 1..Len(expense.users) |->
                           [user_id    |-> expense.users[i].user_id,
                            paid_share |-> MoneyText(expense.users[i].paid_share),
                            owed_share |-> MoneyText(expense.users[i].owed_share)]])]

\* sum(float(share) for ...): a left fold from the int 0 that ends at the first
\* share float() does not read.
RECURSIVE SumShares(_, _, _)
SumShares(shares, i, acc) ==
  IF i > Len(shares) THEN acc
  ELSE IF PyFloat(shares[i]).kind = "raise" THEN PyRaise
  ELSE SumShares(shares, i + 1, PyAdd(acc, PyFloat(shares[i])))

\* The tolerance literal 0.01 of validate_expense.
Tolerance == FloatOfRatio(1, 100)

\* What validate_expense does with an exception, a return value and a logged
\* message: raised (ValueError from float()), else value with the message
\* logged before the return.
ValidateRaised == [raised |-> TRUE, value |-> FALSE, logged |-> "none"]
ValidateReturned(value, logged) == [raised |-> FALSE, value |-> value, logged |-> logged]

\* validate_expense on the text of a SplitwiseExpense.
validate_expense(expense) ==
  IF expense.cost = <<>> THEN ValidateReturned(FALSE, "cost")
  ELSE IF PyFloat(expense.cost).kind = "raise" THEN ValidateRaised
  ELSE IF PyNotPositive(PyFloat(expense.cost)) THEN ValidateReturned(FALSE, "cost")
  ELSE IF Strip(expense.description) = <<>> THEN ValidateReturned(FALSE, "description")
  ELSE IF expense.users = None \/ Len(expense.users[1]) = 0
  THEN ValidateReturned(FALSE, "users")
  ELSE LET users        == expense.users[1]
           total_paid   == SumShares([i \in 1..Len(users) |-> users[i].paid_share], 1,
                                     PyNum(FALSE, ZeroFloat))
           total_owed   == SumShares([i \in 1..Len(users) |-> users[i].owed_share], 1,
                                     PyNum(FALSE, ZeroFloat))
           expense_cost == PyFloat(expense.cost)
       IN  IF total_paid.kind = "raise" \/ total_owed.kind = "raise" THEN ValidateRaised
           ELSE IF PyAbsExceeds(PySub(total_paid, expense_cost), Tolerance)
           THEN ValidateReturned(FALSE, "paid")
           ELSE IF PyAbsExceeds(PySub(total_owed, expense_cost), Tolerance)
           THEN ValidateReturned(FALSE, "owed")
           ELSE ValidateReturned(TRUE, "passed")

(***************************************************************************)
(* Inputs                                                                  *)
(***************************************************************************)
\* Longest participant list in the token family of inputs.
MaxTokens == 3
\* Amounts 0.001 .. MaxSmallAmount/1000 are all tried.
MaxSmallAmount == 20

tJohn     == <<"J", "o", "h", "n">>
tDoe      == <<" ", "D", "O", "E", " ">>
tSarah    == <<"s", "a", "r", "a", "h">>
tRoeMail  == <<"J", "R", "@", "x">>
tJohnRoe  == <<"j", "o", "h", "n", " ", "r", "o", "e">>
tMike     == <<"m", "i", "k", "e">>
tZed      == <<"Z", "e", "d">>
tBlank    == <<" ", " ">>
tEmpty    == <<>>

\* Participant tokens: names in another case, padded, an e-mail, a full name,
\* the principal's own name, an unknown name, a blank and an empty token.
Tokens == {tJohn, tDoe, tSarah, tRoeMail, tJohnRoe, tMike, tZed, tBlank, tEmpty}

TokenLists == UNION {[1..n -> Tokens] : n \in 0..MaxTokens}

\* Participant lists that resolve to 1, 2, 3 and 4 identities.
ShareLists ==
  { <<>>, <<tSarah>>, <<tJohnRoe, tDoe>>, <<tJohn, tSarah>>,
    <<tJohn, tSarah, tRoeMail>> }

\* 0.10, 0.125, 1.00, 10.00, 45.00 and 67.50 next to the small amounts.
Amounts == (1..MaxSmallAmount) \cup {100, 125, 1000, 10000, 45000, 67500}

PaidBys ==
  { None, Some(<<>>), Some(<<"J", "O", "H", "N">>), Some(<<"S", "a", "r", "a", "h">>),
    Some(<<"j", "o", "h", "n", " ", "r", "o", "e">>), Some(<<"Z", "e", "d">>), Some(<<" ", "j", "o", "h", "n">>) }

SplitTypes == {"equal", "exact", "percentage"}

\* Policies the extraction service may write that ParsedExpense refuses.
OtherSplitTypes == {"Equal", "even", ""}

\* Amounts that are not above zero: 0, -0.001 and -5.
OtherAmounts == {0, -1, -5000}

\* currency: absent (the default applies), lower and mixed case, a digit, a
\* sign, too short, too long, empty.
Currencies ==
  { None, Some(<<"u", "s", "d">>), Some(<<"e", "U", "r">>), Some(<<"U", "S", "1">>),
    Some(<<"U", "$", " ">>), Some(<<"U", "S">>), Some(<<"U", "S", "D", "X">>),
    Some(<<>>) }

Dates == { None, Some([year |-> 2024, month |-> 3, day |-> 5]) }

Descriptions == { <<"D", "i", "n", "n", "e", "r">>, <<>>, <<" ">> }

CategoryNames ==
  { None, Some(<<>>), Some(<<"F", "O", "O", "D">>), Some(<<"r", "e", "n", "t">>),
    Some(<<"B", "i", "l", "l", "s">>), Some(<<"C", "a", "r", "s">>) }

\* The group_id argument; 0 stands for every falsy value (0 and None).
GroupIds == {0, 7}

\* config.DEFAULT_GROUP_ID: None when the environment sets no usable
\* DEFAULT_GROUP_ID, else its integer.
DefaultGroupIds == {None, Some(9)}

\* The subject and body arguments of process_email: a text, or the None that
\* main() passes when an info flag is given without --subject and --body.
Subjects == { Some(<<"B", "i", "l", "l">>), Some(<<>>), Some(<<" ">>), None }

\* The candidate the families below vary.
BaseCandidate ==
  [description  |-> <<"D", "i", "n", "n", "e", "r">>,
   amount       |-> 45000,
   currency     |-> None,
   date         |-> None,
   category     |-> None,
   participants |-> <<tJohn, tSarah>>,
   split_type   |-> "equal",
   paid_by      |-> None]

\* What the extraction service may return for an e-mail: every token list,
\* every amount / payer / policy on a few participant lists, every
\* description / category, every currency / date with and without a category,
\* and amounts and policies that ParsedExpense refuses.
Candidates ==
  {[BaseCandidate EXCEPT !.participants = p] : p \in TokenLists}
  \cup {[BaseCandidate EXCEPT !.participants = c[1], !.amount = c[2],
                              !.paid_by = c[3], !.split_type = c[4]] :
          c \in ShareLists \X Amounts \X PaidBys \X SplitTypes}
  \cup {[BaseCandidate EXCEPT !.description = c[1], !.category = c[2]] :
          c \in Descriptions \X CategoryNames}
  \cup {[BaseCandidate EXCEPT !.currency = c[1], !.date = c[2], !.category = c[3]] :
          c \in Currencies \X Dates \X {None, Some(<<"C", "a", "r", "s">>),
                                        Some(<<"F", "O", "O", "D">>)}}
  \cup {[BaseCandidate EXCEPT !.amount = c[1], !.split_type = c[2]] :
          c \in (OtherAmounts \X (SplitTypes \cup OtherSplitTypes))
                \cup ({45000} \X OtherSplitTypes)}

\* The calls whose extraction succeeds: every candidate with a group id, and
\* the base candidate with group_id 0 (falsy, so the configured default is
\* used).
ExtractedCalls ==
  {[group_id |-> 7, candidate |-> c] : c \in Candidates}
  \cup {[group_id |-> 0, candidate |-> BaseCandidate]}

\* The default of ParsedExpense.currency.
DefaultCurrency == <<"U", "S", "D">>

\* validate_currency: raises (None) unless v has three characters, else
\* v.upper().
validate_currency(v) ==
  IF Len(v) # 3 THEN None ELSE Some(Upper(v))

valid_types == {"equal", "exact", "percentage"}

\* validate_split_type: raises (None) unless v is one of valid_types.
validate_split_type(v) ==
  IF v \notin valid_types THEN None ELSE Some(v)

\* The fields of a ParsedExpense built from data that passes validation: the
\* amount literal becomes a float, a given currency is upper-cased.
ParseCandidate(c) ==
  [description  |-> c.description,
   amount       |-> AmountFloat(c.amount),
   currency     |-> IF c.currency = None THEN DefaultCurrency
                    ELSE validate_currency(c.currency[1])[1],
   date         |-> c.date,
   category     |-> c.category,
   participants |-> c.participants,
   split_type   |-> c.split_type,
   paid_by      |-> c.paid_by]

\* ParsedExpense(**data) as it would be if the amount were only required not to
\* be negative.
ParsedExpense_AllowZero(data) ==
  IF \/ data.amount < 0
     \/ data.currency # None /\ validate_currency(data.currency[1]) = None
     \/ validate_split_type(data.split_type) = None
  THEN None
  ELSE Some(ParseCandidate(data))

\* ParsedExpense(**data): ValidationError (None) unless amount > 0, a given
\* currency passes validate_currency and split_type passes validate_split_type.
ParsedExpense(data) ==
  IF \/ data.amount <= 0
     \/ data.currency # None /\ validate_currency(data.currency[1]) = None
     \/ validate_split_type(data.split_type) = None
  THEN None
  ELSE Some(ParseCandidate(data))

\* The number of look-ups _resolve_participants makes when none raises.
NumLookups(participants) ==
  Cardinality({i \in 1..Len(participants) : Strip(participants[i]) # <<>>})

\* Hand-constructed SplitwiseExpense records for validate_expense: cost and
\* share fields are str fields and hold any text, users is Optional.
CostTexts ==
  { <<>>, <<"0", ".", "0", "0">>, <<"-", "5", ".", "0", "0">>, <<"a", "b", "c">>,
    <<"n", "a", "n">>, <<"0", ".", "0", "3">>, <<"1", ".", "0", "0">>,
    <<"1", "0", ".", "0", "0">> }

ShareTexts ==
  { <<"0", ".", "0", "0">>, <<"0", ".", "0", "2">>, <<"0", ".", "9", "9">>,
    <<"1", ".", "0", "0">>, <<"1", ".", "0", "1">>, <<"1", ".", "0", "2">>,
    <<"5", ".", "0", "0">>, <<"1", "0", ".", "0", "0">>, <<"a", "b", "c">>,
    <<"n", "a", "n">> }

HandLines == [user_id : {2}, paid_share : ShareTexts, owed_share : ShareTexts]

\* The second line of the two-line lists.
SecondLines ==
  { [user_id |-> 3, paid_share |-> <<"0", ".", "0", "0">>,
     owed_share |-> <<"0", ".", "0", "0">>],
    [user_id |-> 3, paid_share |-> <<"5", ".", "0", "0">>,
     owed_share |-> <<"5", ".", "0", "0">>],
    [user_id |-> 3, paid_share |-> <<"0", ".", "0", "0">>,
     owed_share |-> <<"a", "b", "c">>] }

\* users: absent, empty, one line, two lines.
HandUsers ==
  {None, Some(<<>>)}
  \cup {Some(<<l>>) : l \in HandLines}
  \cup {Some(<<l[1], l[2]>>) : l \in HandLines \X SecondLines}

HandExpenses == [cost : CostTexts, description : Descriptions, users : HandUsers]

(***************************************************************************)
(* State                                                                   *)
(***************************************************************************)
VARIABLES
  pc,                \* position of the running forwarder operation
  ledger_user,       \* the user record the ledger returns for get_current_user
  default_group_id,  \* config.DEFAULT_GROUP_ID
  access_token,      \* the client holds an access token
  expense_converter, \* ExpenseForwarder.expense_converter is not None
  principal_loads,   \* get_current_user requests made by the converter held
  current_user,      \* its current_user (EmptyUser while there is none)
  subject,           \* the subject of the running call, once it is logged
  group_id,          \* the group_id argument of the running call
  extracted,         \* the candidate as the extraction service wrote it
  parsed_expense,    \* openai_response.parsed_expense
  resolved_users,    \* the list _resolve_participants returned
  lookups,           \* identifiers handed to find_user_by_name_or_email
  payer,             \* the identity _determine_payer returned
  splitwise_users,   \* the share lines
  category_lookups,  \* calls of find_category_by_name in the running call
  collaborator_error,\* the failure a collaborator raised in the running call
  splitwise_expense, \* the record convert_to_splitwise_expense returned
  submissions,       \* create_expense requests sent in the running call
  submitted,         \* the record handed to create_expense
  expense_data,      \* the payload create_expense posted
  created,           \* the ledger created the expense
  result,            \* the dict process_email returned
  hand_expense,      \* the record a direct call of validate_expense is given
  verdict            \* what that call did

vars == <<pc, ledger_user, default_group_id, access_token, expense_converter,
          principal_loads, current_user, subject, group_id, extracted,
          parsed_expense, resolved_users, lookups, payer, splitwise_users,
          category_lookups, collaborator_error, splitwise_expense, submissions,
          submitted, expense_data, created, result, hand_expense, verdict>>

\* What no step of process_email changes: the environment, the session and the
\* direct call of validate_expense.
fixed_vars == <<ledger_user, default_group_id, access_token, expense_converter,
                principal_loads, hand_expense, verdict>>

\* The slice s[:n].
Slice(s, n) == SubSeq(s, 1, IF Len(s) < n THEN Len(s) ELSE n)

\* The dict of the except clause of process_email; its description is
\* subject[:100], or 'Unknown' for an empty subject.
Failure(error, subj) ==
  Some([success |-> FALSE, error |-> error,
        description |-> IF subj # <<>> THEN Slice(subj, 100)
                        ELSE <<"U", "n", "k", "n", "o", "w", "n">>])

\* The fields of a SplitwiseExpenseResponse.
SplitwiseExpenseResponseFields == {"expenses", "errors"}

\* The dict process_email returns when nothing raised, without the ledger's
\* identifier and the confidence and notes of the extraction.
Success(expense) ==
  Some([success |-> TRUE, description |-> expense.description,
        amount |-> expense.cost, currency |-> expense.currency_code])

\* The end of process_email once create_expense has returned a response: it
\* reads response.expense, which raises AttributeError unless the response has
\* that field, and the except clause makes a failure of it.
ReportCreated(expense, subj) ==
  IF "expense" \in SplitwiseExpenseResponseFields
  THEN Success(expense)
  ELSE Failure("no_attribute_expense", subj)

\* ExpenseForwarder.__init__ on a ledger whose get_current_user answers with
\* user, under a configuration whose default group is one of defaults: without
\* a token there is no converter; with one the converter is created, unless
\* loading the principal fails.
Constructed(user, defaults) ==
  /\ pc = "idle"
  /\ ledger_user = user
  /\ default_group_id \in defaults
  /\ \E token_given \in BOOLEAN, load_ok \in BOOLEAN :
       /\ access_token = token_given
       /\ expense_converter = (token_given /\ load_ok)
       /\ principal_loads = IF token_given /\ load_ok THEN 1 ELSE 0
       /\ current_user = IF token_given /\ load_ok THEN user ELSE EmptyUser
  /\ subject = <<>>
  /\ group_id = 0
  /\ extracted = None
  /\ parsed_expense = None
  /\ resolved_users = <<>>
  /\ lookups = <<>>
  /\ payer = None
  /\ splitwise_users = <<>>
  /\ category_lookups = 0
  /\ collaborator_error = None
  /\ splitwise_expense = None
  /\ submissions = 0
  /\ submitted = None
  /\ expense_data = None
  /\ created = FALSE
  /\ result = None
  /\ hand_expense = None
  /\ verdict = None

\* The forwarder after construction; the ledger knows the principal and the
\* environment sets no DEFAULT_GROUP_ID.
Init == Constructed(Principal, {None})

(***************************************************************************)
(* ExpenseForwarder.authenticate_splitwise                                 *)
(***************************************************************************)
\* AuthenticateSplitwise as it would be if the forwarder kept a converter whose
\* principal failed to load.
AuthenticateSplitwise_KeepsUnloaded ==
  /\ pc = "idle"
  /\ \E outcome \in {"authorize_fails", "load_fails", "loaded"} :
       /\ access_token' = (access_token \/ outcome # "authorize_fails")
       /\ expense_converter' = (expense_converter \/ outcome # "authorize_fails")
       /\ principal_loads' = IF outcome = "loaded" THEN 1
                             ELSE IF outcome = "load_fails" THEN 0
                             ELSE principal_loads
       /\ current_user' = IF outcome = "loaded" THEN ledger_user
                          ELSE IF outcome = "load_fails" THEN EmptyUser
                          ELSE current_user
       /\ pc' = IF outcome = "loaded" THEN "idle" ELSE "auth_failed"
  /\ UNCHANGED <<ledger_user, default_group_id, subject, group_id, extracted,
                 parsed_expense, resolved_users, lookups, payer, splitwise_users,
                 category_lookups, collaborator_error, splitwise_expense,
                 submissions, submitted, expense_data, created, result,
                 hand_expense, verdict>>

\* authorize_interactive fails and nothing changes, or it stores the token and
\* create_expense_converter replaces the converter, unless loading the
\* principal fails: then the token stays and the converter is the one held
\* before.  A failure is raised to the caller.
AuthenticateSplitwise ==
  /\ pc = "idle"
  /\ \E outcome \in {"authorize_fails", "load_fails", "loaded"} :
       /\ access_token' = (access_token \/ outcome # "authorize_fails")
       /\ expense_converter' = (expense_converter \/ outcome = "loaded")
       /\ principal_loads' = IF outcome = "loaded" THEN 1 ELSE principal_loads
       /\ current_user' = IF outcome = "loaded" THEN ledger_user ELSE current_user
       /\ pc' = IF outcome = "loaded" THEN "idle" ELSE "auth_failed"
  /\ UNCHANGED <<ledger_user, default_group_id, subject, group_id, extracted,
                 parsed_expense, resolved_users, lookups, payer, splitwise_users,
                 category_lookups, collaborator_error, splitwise_expense,
                 submissions, submitted, expense_data, created, result,
                 hand_expense, verdict>>

(***************************************************************************)
(* ExpenseForwarder.process_email, step by step                            *)
(***************************************************************************)
\* Without a converter process_email raises "Not authenticated with
\* Splitwise" before it does anything else.
NotAuthenticated ==
  /\ pc = "idle"
  /\ ~expense_converter
  /\ pc' = "raised"
  /\ UNCHANGED <<current_user, subject, group_id, extracted, parsed_expense,
                 resolved_users, lookups, payer, splitwise_users, category_lookups,
                 collaborator_error, splitwise_expense, submissions, submitted,
                 expense_data, created, result>>
  /\ UNCHANGED fixed_vars

\* With a converter, the log line f"Processing email: {subject[:50]}..." comes
\* before the try: a subject of None raises TypeError to the caller.
SubjectNotSubscriptable ==
  /\ pc = "idle"
  /\ expense_converter
  /\ \E subj \in Subjects : subj = None
  /\ pc' = "raised"
  /\ UNCHANGED <<current_user, subject, group_id, extracted, parsed_expense,
                 resolved_users, lookups, payer, splitwise_users, category_lookups,
                 collaborator_error, splitwise_expense, submissions, submitted,
                 expense_data, created, result>>
  /\ UNCHANGED fixed_vars

\* EmailContent(subject, body) rejects a body that is None and a blank subject
\* or body.
EmailRejected ==
  /\ pc = "idle"
  /\ expense_converter
  /\ \E subj \in Subjects, body \in Subjects, g \in GroupIds :
       /\ subj # None
       /\ IF body = None THEN TRUE
          ELSE (Strip(subj[1]) = <<>> \/ Strip(body[1]) = <<>>)
       /\ subject' = subj[1]
       /\ group_id' = g
       /\ result' = Failure("email_content", subj[1])
  /\ pc' = "returned"
  /\ UNCHANGED <<current_user, extracted, parsed_expense, resolved_users, lookups,
                 payer, splitwise_users, category_lookups, collaborator_error,
                 splitwise_expense, submissions, submitted, expense_data, created>>
  /\ UNCHANGED fixed_vars

\* parse_email raises: the service fails or its answer is not JSON.
ExtractionFails ==
  /\ pc = "idle"
  /\ expense_converter
  /\ \E subj \in Subjects, g \in GroupIds :
       /\ subj # None
       /\ Strip(subj[1]) # <<>>
       /\ subject' = subj[1]
       /\ group_id' = g
       /\ result' = Failure("extraction", subj[1])
  /\ pc' = "returned"
  /\ UNCHANGED <<current_user, extracted, parsed_expense, resolved_users, lookups,
                 payer, splitwise_users, category_lookups, collaborator_error,
                 splitwise_expense, submissions, submitted, expense_data, created>>
  /\ UNCHANGED fixed_vars

\* parse_email raises because OpenAIResponse(**parsed_data) refuses the
\* candidate; process_email returns from its except clause.
CandidateRejected ==
  /\ pc = "idle"
  /\ expense_converter
  /\ \E subj \in Subjects, call \in ExtractedCalls :
       /\ subj # None
       /\ Strip(subj[1]) # <<>>
       /\ ParsedExpense(call.candidate) = None
       /\ subject' = subj[1]
       /\ group_id' = call.group_id
       /\ extracted' = Some(call.candidate)
       /\ result' = Failure("candidate_validation", subj[1])
  /\ pc' = "returned"
  /\ UNCHANGED <<current_user, parsed_expense, resolved_users, lookups, payer,
                 splitwise_users, category_lookups, collaborator_error,
                 splitwise_expense, submissions, submitted, expense_data, created>>
  /\ UNCHANGED fixed_vars

\* parse_email returns a candidate that ParsedExpense accepts.
ParseEmail ==
  /\ pc = "idle"
  /\ expense_converter
  /\ \E subj \in Subjects, call \in ExtractedCalls :
       /\ subj # None
       /\ Strip(subj[1]) # <<>>
       /\ ParsedExpense(call.candidate) # None
       /\ subject' = subj[1]
       /\ group_id' = call.group_id
       /\ extracted' = Some(call.candidate)
       /\ parsed_expense' = ParsedExpense(call.candidate)
  /\ pc' = "parsed"
  /\ UNCHANGED <<current_user, resolved_users, lookups, payer, splitwise_users,
                 category_lookups, collaborator_error, splitwise_expense,
                 submissions, submitted, expense_data, created, result>>
  /\ UNCHANGED fixed_vars

\* ResolveParticipants as it would be if convert_to_splitwise_expense did not
\* refuse an empty resolved list.
ResolveParticipants_NoEmptyCheck ==
  /\ pc = "parsed"
  /\ \E fail_at \in 0..NumLookups(parsed_expense[1].participants) :
       LET out == _resolve_participants(current_user, parsed_expense[1].participants,
                                        fail_at)
       IN  /\ lookups' = out.lookups
           /\ IF out.raised
              THEN /\ pc' = "returned"
                   /\ collaborator_error' = Some("identity_lookup")
                   /\ result' = Failure("identity_lookup", subject)
                   /\ UNCHANGED resolved_users
              ELSE /\ pc' = "resolved"
                   /\ resolved_users' = out.resolved_users
                   /\ UNCHANGED <<result, collaborator_error>>
  /\ UNCHANGED <<current_user, subject, group_id, extracted, parsed_expense, payer,
                 splitwise_users, category_lookups, splitwise_expense, submissions,
                 submitted, expense_data, created>>
  /\ UNCHANGED fixed_vars

\* ResolveParticipants as it would be if every conversion loaded the principal
\* again.
ResolveParticipants_Reload ==
  /\ pc = "parsed"
  /\ principal_loads' = principal_loads + 1
  /\ \E fail_at \in 0..NumLookups(parsed_expense[1].participants) :
       LET out == _resolve_participants(ledger_user, parsed_expense[1].participants,
                                        fail_at)
       IN  /\ lookups' = out.lookups
           /\ IF out.raised
              THEN /\ pc' = "returned"
                   /\ collaborator_error' = Some("identity_lookup")
                   /\ result' = Failure("identity_lookup", subject)
                   /\ UNCHANGED resolved_users
              ELSE IF out.resolved_users = <<>>
              THEN /\ pc' = "returned"
                   /\ result' = Failure("no_participants", subject)
                   /\ UNCHANGED <<resolved_users, collaborator_error>>
              ELSE /\ pc' = "resolved"
                   /\ resolved_users' = out.resolved_users
                   /\ UNCHANGED <<result, collaborator_error>>
  /\ UNCHANGED <<current_user, subject, group_id, extracted, parsed_expense, payer,
                 splitwise_users, category_lookups, splitwise_expense, submissions,
                 submitted, expense_data, created>>
  /\ UNCHANGED <<ledger_user, default_group_id, access_token, expense_converter,
                 hand_expense, verdict>>

\* convert_to_splitwise_expense, first part: _resolve_participants.  A look-up
\* that raises ends the call in the except clause of process_email.
ResolveParticipants ==
  /\ pc = "parsed"
  /\ \E fail_at \in 0..NumLookups(parsed_expense[1].participants) :
       LET out == _resolve_participants(current_user, parsed_expense[1].participants,
                                        fail_at)
       IN  /\ lookups' = out.lookups
           /\ IF out.raised
              THEN /\ pc' = "returned"
                   /\ collaborator_error' = Some("identity_lookup")
                   /\ result' = Failure("identity_lookup", subject)
                   /\ UNCHANGED resolved_users
              ELSE IF out.resolved_users = <<>>
              THEN /\ pc' = "returned"
                   /\ result' = Failure("no_participants", subject)
                   /\ UNCHANGED <<resolved_users, collaborator_error>>
              ELSE /\ pc' = "resolved"
                   /\ resolved_users' = out.resolved_users
                   /\ UNCHANGED <<result, collaborator_error>>
  /\ UNCHANGED <<current_user, subject, group_id, extracted, parsed_expense, payer,
                 splitwise_users, category_lookups, splitwise_expense, submissions,
                 submitted, expense_data, created>>
  /\ UNCHANGED fixed_vars

\* convert_to_splitwise_expense, second part: _create_splitwise_users.
CreateSplitwiseUsers ==
  /\ pc = "resolved"
  /\ LET out == _create_splitwise_users(current_user, parsed_expense[1], resolved_users)
     IN  IF out.raised
         THEN /\ pc' = "returned"
              /\ result' = Failure("no_users", subject)
              /\ UNCHANGED <<payer, splitwise_users>>
         ELSE /\ pc' = "shared"
              /\ payer' = out.payer
              /\ splitwise_users' = out.users
              /\ UNCHANGED result
  /\ UNCHANGED <<current_user, subject, group_id, extracted, parsed_expense,
                 resolved_users, lookups, category_lookups, collaborator_error,
                 splitwise_expense, submissions, submitted, expense_data, created>>
  /\ UNCHANGED fixed_vars

\* convert_to_splitwise_expense, last part: category, group and the record.
\* find_category_by_name is called once for a category name that is not empty,
\* and may raise.
AssembleExpense ==
  /\ pc = "shared"
  /\ \E lookup_raises \in BOOLEAN :
       /\ lookup_raises =>
            parsed_expense[1].category # None /\ parsed_expense[1].category[1] # <<>>
       /\ collaborator_error' =
            IF lookup_raises THEN Some("category_lookup") ELSE collaborator_error
       /\ splitwise_expense' =
            Some(BuildExpense(parsed_expense[1], splitwise_users,
                              _resolve_category(parsed_expense[1].category, lookup_raises),
                              group_id, default_group_id))
  /\ category_lookups' =
       IF parsed_expense[1].category # None /\ parsed_expense[1].category[1] # <<>>
       THEN category_lookups + 1 ELSE category_lookups
  /\ pc' = "converted"
  /\ UNCHANGED <<current_user, subject, group_id, extracted, parsed_expense,
                 resolved_users, lookups, payer, splitwise_users, submissions,
                 submitted, expense_data, created, result>>
  /\ UNCHANGED fixed_vars

\* CreateExpense as it would be if a request that failed were sent again.
CreateExpense_Resend ==
  /\ pc = "converted"
  /\ submitted' = splitwise_expense
  /\ expense_data' = Some(ExpenseData(splitwise_expense[1]))
  /\ \E outcome \in {"request_error", "api_errors", "created"} :
       /\ submissions' = IF outcome = "request_error" THEN submissions + 2
                         ELSE submissions + 1
       /\ created' = (outcome = "created")
       /\ collaborator_error' =
            IF outcome = "created" THEN collaborator_error ELSE Some(outcome)
       /\ result' = IF outcome = "created"
                    THEN ReportCreated(splitwise_expense[1], subject)
                    ELSE Failure(outcome, subject)
  /\ pc' = "returned"
  /\ UNCHANGED <<current_user, subject, group_id, extracted, parsed_expense,
                 resolved_users, lookups, payer, splitwise_users, category_lookups,
                 splitwise_expense>>
  /\ UNCHANGED fixed_vars

\* splitwise_client.create_expense(splitwise_expense) and the rest of
\* process_email.  One request is sent: it fails, or the ledger answers with
\* errors, or it creates the expense; process_email then reads
\* response.expense, a field SplitwiseExpenseResponse does not have, and ends
\* in its except clause.
CreateExpense ==
  /\ pc = "converted"
  /\ submitted' = splitwise_expense
  /\ expense_data' = Some(ExpenseData(splitwise_expense[1]))
  /\ submissions' = submissions + 1
  /\ \E outcome \in {"request_error", "api_errors", "created"} :
       /\ created' = (outcome = "created")
       /\ collaborator_error' =
            IF outcome = "created" THEN collaborator_error ELSE Some(outcome)
       /\ result' = IF outcome = "created"
                    THEN ReportCreated(splitwise_expense[1], subject)
                    ELSE Failure(outcome, subject)
  /\ pc' = "returned"
  /\ UNCHANGED <<current_user, subject, group_id, extracted, parsed_expense,
                 resolved_users, lookups, payer, splitwise_users, category_lookups,
                 splitwise_expense>>
  /\ UNCHANGED fixed_vars

\* The caller takes the result; the forwarder is ready for the next e-mail.
Return ==
  /\ pc \in {"returned", "raised", "auth_failed"}
  /\ pc' = "idle"
  /\ subject' = <<>>
  /\ group_id' = 0
  /\ extracted' = None
  /\ parsed_expense' = None
  /\ resolved_users' = <<>>
  /\ lookups' = <<>>
  /\ payer' = None
  /\ splitwise_users' = <<>>
  /\ category_lookups' = 0
  /\ collaborator_error' = None
  /\ splitwise_expense' = None
  /\ submissions' = 0
  /\ submitted' = None
  /\ expense_data' = None
  /\ created' = FALSE
  /\ result' = None
  /\ UNCHANGED current_user
  /\ UNCHANGED fixed_vars

Next ==
  \/ AuthenticateSplitwise
  \/ NotAuthenticated
  \/ SubjectNotSubscriptable
  \/ EmailRejected
  \/ ExtractionFails
  \/ CandidateRejected
  \/ ParseEmail
  \/ ResolveParticipants
  \/ CreateSplitwiseUsers
  \/ AssembleExpense
  \/ CreateExpense
  \/ Return

Spec == Init /\ [][Next]_vars

\* The same forwarder on a ledger whose get_current_user answers with an empty
\* user record: the converter is created and its principal is falsy.
EmptyPrincipalInit == Constructed(EmptyUser, {None})

EmptyPrincipalSpec == EmptyPrincipalInit /\ [][Next]_vars

\* The same forwarder under either configuration: with and without a
\* DEFAULT_GROUP_ID.
ConfiguredInit == Constructed(Principal, DefaultGroupIds)

ConfiguredSpec == ConfiguredInit /\ [][Next]_vars

(***************************************************************************)
(* ExpenseConverter.validate_expense, called directly                      *)
(***************************************************************************)
\* A converter with its principal loaded, about to validate a record.
ValidationInit ==
  /\ pc = "validate"
  /\ ledger_user = Principal
  /\ default_group_id = None
  /\ access_token = TRUE
  /\ expense_converter = TRUE
  /\ principal_loads = 1
  /\ current_user = Principal
  /\ subject = <<>>
  /\ group_id = 0
  /\ extracted = None
  /\ parsed_expense = None
  /\ resolved_users = <<>>
  /\ lookups = <<>>
  /\ payer = None
  /\ splitwise_users = <<>>
  /\ category_lookups = 0
  /\ collaborator_error = None
  /\ splitwise_expense = None
  /\ submissions = 0
  /\ submitted = None
  /\ expense_data = None
  /\ created = FALSE
  /\ result = None
  /\ hand_expense \in {Some(e) : e \in HandExpenses}
  /\ verdict = None

ValidateExpense ==
  /\ pc = "validate"
  /\ verdict' = Some(validate_expense(hand_expense[1]))
  /\ pc' = "validated"
  /\ UNCHANGED <<current_user, subject, group_id, extracted, parsed_expense,
                 resolved_users, lookups, payer, splitwise_users, category_lookups,
                 collaborator_error, splitwise_expense, submissions, submitted,
                 expense_data, created, result, hand_expense>>
  /\ UNCHANGED <<ledger_user, default_group_id, access_token, expense_converter,
                 principal_loads>>

ValidationNext == ValidateExpense

ValidationSpec == ValidationInit /\ [][ValidationNext]_vars

(***************************************************************************)
(* Properties                                                              *)
(***************************************************************************)
RECURSIVE SumSeq(_)
SumSeq(q) == IF q = <<>> THEN 0 ELSE q[1] + SumSeq(Tail(q))

Abs(n) == IF n < 0 THEN -n ELSE n

\* The total of the running call in thousandths, and the share sums in cents.
TotalMilli == extracted[1].amount
SumPaid == SumSeq([i \in 1..Len(splitwise_users) |-> splitwise_users[i].paid_share])
SumOwed == SumSeq([i \in 1..Len(splitwise_users) |-> splitwise_users[i].owed_share])

\* _resolve_participants has returned, _create_splitwise_users has returned.
ResolutionDone == pc \in {"resolved", "shared", "converted"}
SharesDone == pc \in {"shared", "converted"}

\* C1: create_expense is only handed a record that validate_expense passes.
C1_ValidationGate ==
  submitted # None => validate_expense(ExpenseText(submitted[1])).value

\* C2: the owed shares and the paid shares each sum to the total within 0.01.
C2_SplitCompleteness ==
  SharesDone =>
    /\ Abs(10 * SumOwed - TotalMilli) <= 10
    /\ Abs(10 * SumPaid - TotalMilli) <= 10

\* C3: for a total in whole cents the owed shares sum exactly to the total,
\* also when total / N is not exact to two decimals.
C3_RemainderDistributed ==
  (SharesDone /\ TotalMilli % 10 = 0) => 10 * SumOwed = TotalMilli

\* C4: under the equal policy exactly one share line has a paid share above
\* zero and every other line has "0.00".
C4_PayerUniqueness ==
  (SharesDone /\ parsed_expense[1].split_type = "equal") =>
    Cardinality({i \in 1..Len(splitwise_users) : splitwise_users[i].paid_share > 0}) = 1

\* Case-insensitive equality of two strings.
SameIgnoringCase(a, b) == Lower(a) = Lower(b)

\* paid_by names the identity: its e-mail, first name, last name or the name
\* parts joined by one space (no leading or trailing space).
NamesIdentity(paid_by, user) ==
  \/ SameIgnoringCase(paid_by, user.email)
  \/ SameIgnoringCase(paid_by, user.first_name)
  \/ SameIgnoringCase(paid_by, user.last_name)
  \/ SameIgnoringCase(paid_by, Strip(user.first_name \o <<" ">> \o user.last_name))

PaidBySet == parsed_expense[1].paid_by # None /\ parsed_expense[1].paid_by[1] # <<>>

PayerCandidates ==
  IF PaidBySet
  THEN {i \in 1..Len(resolved_users) :
          NamesIdentity(parsed_expense[1].paid_by[1], resolved_users[i])}
  ELSE {}

\* C5: the payer is the first resolved identity that paid_by names, the
\* principal when paid_by is unset or names none, and always one of the
\* resolved identities.
C5_PayerDetermination ==
  SharesDone =>
    /\ PayerCandidates # {} =>
         \E i \in PayerCandidates :
           /\ payer = Some(resolved_users[i])
           /\ \A j \in PayerCandidates : i <= j
    /\ PayerCandidates = {} => payer = Some(current_user)
    /\ \E k \in 1..Len(resolved_users) : payer = Some(resolved_users[k])

C5_Witness ==
  /\ pc = "shared"
  /\ parsed_expense[1].paid_by = Some(<<"J", "O", "H", "N">>)
  /\ Len(resolved_users) = 3
  /\ resolved_users[2].id = 4
  /\ payer = Some(resolved_users[2])

\* C6: under the equal policy there is one line per resolved identity, in
\* order; the payer's line has the total to two decimals as paid share, every
\* other line "0.00"; all lines have the same owed share, total / N to two
\* decimals.  45.00 among three: "15.00" each, the principal pays "45.00";
\* 10.00 among four: "2.50" each.
C6_EqualShares ==
  (SharesDone /\ parsed_expense[1].split_type = "equal") =>
    LET n == Len(resolved_users) IN
    /\ Len(splitwise_users) = n
    /\ \A i \in 1..n :
         /\ splitwise_users[i].user_id = resolved_users[i].id
         /\ Some(resolved_users[i]) = payer =>
              Abs(10 * splitwise_users[i].paid_share - TotalMilli) <= 5
         /\ Some(resolved_users[i]) # payer => splitwise_users[i].paid_share = 0
         /\ splitwise_users[i].owed_share = splitwise_users[1].owed_share
         /\ Abs(10 * n * splitwise_users[i].owed_share - TotalMilli) <= 5 * n
    /\ (TotalMilli = 45000 /\ n = 3 /\ parsed_expense[1].paid_by = None) =>
         /\ \A i \in 1..n : splitwise_users[i].owed_share = 1500
         /\ splitwise_users[1].user_id = current_user.id
         /\ splitwise_users[1].paid_share = 4500
    /\ (TotalMilli = 10000 /\ n = 4) =>
         \A i \in 1..n : splitwise_users[i].owed_share = 250

C6_Witness ==
  /\ pc = "shared"
  /\ parsed_expense[1].split_type = "equal"
  /\ TotalMilli = 10000
  /\ Len(splitwise_users) = 4
  /\ payer = Some(resolved_users[2])
  /\ splitwise_users[2].paid_share = 1000
  /\ splitwise_users[4].owed_share = 250

\* C7: with policy exact or percentage the share lines are those of the same
\* candidate with policy equal, and share computation does not raise.
C7_FallbackPolicy ==
  /\ (pc = "returned" /\ parsed_expense # None
        /\ parsed_expense[1].split_type # "equal") => result[1].error # "no_users"
  /\ (SharesDone /\ parsed_expense[1].split_type # "equal") =>
       splitwise_users =
         _create_splitwise_users(current_user,
                                 [parsed_expense[1] EXCEPT !.split_type = "equal"],
                                 resolved_users).users

C7_Witness ==
  /\ pc = "shared"
  /\ parsed_expense[1].split_type = "percentage"
  /\ TotalMilli = 10000
  /\ Len(splitwise_users) = 3
  /\ splitwise_users[3].owed_share = 333

\* C8: whatever the tokens, the resolved list is not empty and starts with the
\* principal.
C8_PrincipalFirst ==
  /\ result # None => result[1].error # "no_participants"
  /\ ResolutionDone => (resolved_users # <<>> /\ resolved_users[1] = current_user)

C8_Witness ==
  /\ pc = "resolved"
  /\ parsed_expense[1].participants = <<>>
  /\ resolved_users = <<current_user>>

\* C9: no two resolved identities share an identifier.
C9_NoDuplicateIdentity ==
  ResolutionDone =>
    \A i, j \in 1..Len(resolved_users) :
      resolved_users[i].id = resolved_users[j].id => i = j

C9_Witness ==
  /\ pc = "resolved"
  /\ parsed_expense[1].participants = <<tJohn, tDoe, tMike>>
  /\ Len(resolved_users) = 2

\* For each token of the running call, the identity the directory holds for
\* it (None for a blank token and for one that is not found).
TokenUsers ==
  [i \in 1..Len(parsed_expense[1].participants) |->
     IF Strip(parsed_expense[1].participants[i]) = <<>> THEN None
     ELSE find_user_by_name_or_email(Strip(parsed_expense[1].participants[i]))]
IsNonBlank(t) == t # <<>>

\* C10: exactly the non-blank tokens are looked up, in order; the result is the
\* principal followed by the identities of the tokens that are found, in order
\* of first occurrence; a token that is not found does not stop the loop.
C10_UnresolvedDropped ==
  ResolutionDone =>
    LET tokens == parsed_expense[1].participants
        found  == TokenUsers
        first  == [k \in 2..Len(resolved_users) |->
                     {i \in 1..Len(tokens) :
                        /\ found[i] = Some(resolved_users[k])
                        /\ \A j \in 1..(i - 1) : found[j] # found[i]}]
    IN
    /\ lookups = SelectSeq([i \in 1..Len(tokens) |-> Strip(tokens[i])], IsNonBlank)
    /\ resolved_users[1] = current_user
    /\ \A i \in 1..Len(tokens) :
         found[i] # None =>
           \E k \in 1..Len(resolved_users) : resolved_users[k].id = found[i][1].id
    /\ \A k \in 2..Len(resolved_users) : first[k] # {}
    /\ \A k, l \in 2..Len(resolved_users) :
         k < l => \A i \in first[k], j \in first[l] : i < j

C10_Witness ==
  /\ pc = "resolved"
  /\ parsed_expense[1].participants = <<tZed, tBlank, tSarah>>
  /\ lookups = <<tZed, tSarah>>
  /\ Len(resolved_users) = 2
  /\ resolved_users[2].id = 3

\* The number of cents a decimal text with at most two fractional digits
\* denotes, None for any other text.
ExactCents(text) ==
  LET t      == Strip(text)
      signed == t # <<>> /\ t[1] \in {"+", "-"}
      body   == IF signed THEN Tail(t) ELSE t
      cents  == DigitsValue(body, 1, 0) * Pow10(2 - FractionLength(body))
  IN  IF IsDecimalText(body) /\ FractionLength(body) <= 2
      THEN Some(IF t[1] = "-" THEN -cents ELSE cents)
      ELSE None

\* The shares are numbers and their sum is within 0.01 of the cost, in decimal
\* arithmetic.
SumWithinCent(shares, cost_cents) ==
  /\ \A i \in 1..Len(shares) : ExactCents(shares[i]) # None
  /\ Abs(SumSeq([i \in 1..Len(shares) |-> ExactCents(shares[i])[1]]) - cost_cents) <= 1

\* The first of the five checks the record fails, "passed" when it fails none.
FirstFailedCheck(expense) ==
  IF ExactCents(expense.cost) = None \/ ExactCents(expense.cost)[1] <= 0 THEN "cost"
  ELSE IF Strip(expense.description) = <<>> THEN "description"
  ELSE IF expense.users = None \/ expense.users[1] = <<>> THEN "users"
  ELSE IF ~SumWithinCent([i \in 1..Len(expense.users[1]) |->
                            expense.users[1][i].paid_share],
                         ExactCents(expense.cost)[1]) THEN "paid"
  ELSE IF ~SumWithinCent([i \in 1..Len(expense.users[1]) |->
                            expense.users[1][i].owed_share],
                         ExactCents(expense.cost)[1]) THEN "owed"
  ELSE "passed"

\* C11: validate_expense returns pass exactly when the cost is a number above
\* zero, the description is not blank, there is a share line, and the paid and
\* the owed shares each sum to the cost within 0.01; when it returns a failure,
\* the failure is that of the first check, in this order, that the record
\* fails.
C11_FiveChecksInOrder ==
  pc = "validated" =>
    /\ verdict[1].value <=> FirstFailedCheck(hand_expense[1]) = "passed"
    /\ ~verdict[1].raised => verdict[1].logged = FirstFailedCheck(hand_expense[1])

\* C12: validate_expense returns for every record; it never raises.
C12_NeverRaises ==
  pc = "validated" => ~verdict[1].raised

\* One record for each check that can fail.
ReasonExamples ==
  { [cost |-> <<>>, description |-> <<"D", "i", "n", "n", "e", "r">>, users |-> None],
    [cost |-> <<"1", ".", "0", "0">>, description |-> <<" ">>, users |-> None],
    [cost |-> <<"1", ".", "0", "0">>, description |-> <<"D", "i", "n", "n", "e", "r">>,
     users |-> Some(<<>>)],
    [cost |-> <<"1", ".", "0", "0">>, description |-> <<"D", "i", "n", "n", "e", "r">>,
     users |-> Some(<<[user_id |-> 2, paid_share |-> <<"5", ".", "0", "0">>,
                       owed_share |-> <<"1", ".", "0", "0">>]>>)],
    [cost |-> <<"1", ".", "0", "0">>, description |-> <<"D", "i", "n", "n", "e", "r">>,
     users |-> Some(<<[user_id |-> 2, paid_share |-> <<"1", ".", "0", "0">>,
                       owed_share |-> <<"5", ".", "0", "0">>]>>)] }

\* C13: the value validate_expense returns for a failure tells which check
\* failed: a record that fails another check gets another value.
C13_FailureIdentifiesCheck ==
  (pc = "validated" /\ ~verdict[1].raised /\ ~verdict[1].value) =>
    \A other \in ReasonExamples :
      LET o == validate_expense(other)
      IN  (~o.raised /\ ~o.value /\ o.logged # verdict[1].logged) =>
            o.value # verdict[1].value

\* What one call of process_email has not done: no look-up, no share line, no
\* record, no submission.
NothingInvoked ==
  /\ lookups = <<>>
  /\ category_lookups = 0
  /\ submissions = 0
  /\ resolved_users = <<>>
  /\ splitwise_users = <<>>
  /\ splitwise_expense = None
  /\ submitted = None
  /\ expense_data = None
  /\ ~created

\* C14: a candidate whose amount is not above zero, or whose split policy is
\* not equal, exact or percentage, is refused when it is constructed: the call
\* returns a failure, and no identity look-up, category look-up or submission
\* is made and no record is built for it.
C14_InvalidCandidateRejected ==
  (extracted # None
     /\ (extracted[1].amount <= 0
           \/ extracted[1].split_type \notin {"equal", "exact", "percentage"})) =>
    /\ pc = "returned"
    /\ parsed_expense = None
    /\ result = Failure("candidate_validation", subject)
    /\ NothingInvoked

C14_Witness ==
  /\ pc = "returned"
  /\ extracted # None
  /\ extracted[1].amount = -5000
  /\ extracted[1].split_type = "equal"
  /\ result = Failure("candidate_validation", subject)

Letters ==
  {UpperLetters[i] : i \in 1..Len(UpperLetters)}
  \cup {LowerLetters[i] : i \in 1..Len(LowerLetters)}

\* C15: a candidate is accepted only if its currency is three letters, and the
\* currency_code of every converted record is three upper-case letters.
C15_CurrencyThreeLetters ==
  /\ (parsed_expense # None /\ extracted[1].currency # None) =>
       /\ Len(extracted[1].currency[1]) = 3
       /\ \A i \in 1..3 : extracted[1].currency[1][i] \in Letters
  /\ splitwise_expense # None =>
       /\ Len(splitwise_expense[1].currency_code) = 3
       /\ \A i \in 1..3 :
            splitwise_expense[1].currency_code[i] \in
              {UpperLetters[k] : k \in 1..Len(UpperLetters)}

\* C16: a candidate whose description is empty or blank is refused when it is
\* constructed, so none is converted.
C16_BlankDescriptionRejected ==
  (extracted # None /\ Strip(extracted[1].description) = <<>>) =>
    /\ parsed_expense = None
    /\ splitwise_expense = None

\* The category policy: the "Other" subcategory of the first top-level category
\* named name that has one; else the first subcategory named name, in list
\* order; else not found.  Names are compared ignoring case.
CategoryPolicy(categories, name) ==
  LET other == <<"o", "t", "h", "e", "r">>
      tops  == {i \in 1..Len(categories) :
                  /\ SameIgnoringCase(categories[i].name, name)
                  /\ FindSubcategory(categories[i].subcategories, other, 1) # None}
      subs  == {i \in 1..Len(categories) :
                  FindSubcategory(categories[i].subcategories, Lower(name), 1) # None}
      first(S) == CHOOSE i \in S : \A j \in S : i <= j
  IN  IF tops # {} THEN FindSubcategory(categories[first(tops)].subcategories, other, 1)
      ELSE IF subs # {}
      THEN FindSubcategory(categories[first(subs)].subcategories, Lower(name), 1)
      ELSE None

\* A category name was given and looked up, and the look-up returned.
CategoryLookedUp ==
  /\ pc = "converted"
  /\ category_lookups = 1
  /\ collaborator_error # Some("category_lookup")

\* C17: the identifier find_category_by_name returns is the one the category
\* policy names, wherever the matching top-level category stands in the list.
C17_CategoryPolicy ==
  CategoryLookedUp =>
    splitwise_expense[1].category_id =
      CategoryPolicy(Categories, parsed_expense[1].category[1])

\* C18: when the category look-up finds nothing, conversion returns a record
\* with no category identifier that is otherwise the record of the same
\* candidate without a category.  For the 45.00 dinner with John and Sarah:
\* cost "45.00", three lines owing "15.00".
C18_CategoryNotFound ==
  (CategoryLookedUp /\ find_category_by_name(parsed_expense[1].category[1]) = None) =>
    /\ splitwise_expense[1].category_id = None
    /\ splitwise_expense[1] =
         convert_to_splitwise_expense(current_user,
                                      [parsed_expense[1] EXCEPT !.category = None],
                                      group_id, default_group_id)
    /\ splitwise_expense[1].users = splitwise_users
    /\ splitwise_expense[1].description = extracted[1].description
    /\ splitwise_expense[1].date = _format_date(extracted[1].date)
    /\ splitwise_expense[1].group_id = final_group_id(group_id, default_group_id)
    /\ (extracted[1].amount = 45000 /\ extracted[1].split_type = "equal") =>
         /\ splitwise_expense[1].cost = 4500
         /\ Len(splitwise_expense[1].users) = 3
         /\ \A i \in 1..3 : splitwise_expense[1].users[i].owed_share = 1500

C18_Witness ==
  /\ pc = "converted"
  /\ category_lookups = 1
  /\ collaborator_error = None
  /\ parsed_expense[1].category = Some(<<"C", "a", "r", "s">>)
  /\ parsed_expense[1].date # None
  /\ splitwise_expense[1].category_id = None
  /\ splitwise_expense[1].date = Some(<<"2", "0", "2", "4", "-", "0", "3", "-", "0", "5">>)
  /\ splitwise_expense[1].currency_code = <<"E", "U", "R">>

\* C19: a failure raised by the identity look-up, the category look-up or the
\* submission ends the operation and reaches the caller as that failure.
C19_CollaboratorFailurePropagates ==
  collaborator_error # None =>
    /\ pc = "returned"
    /\ result = Failure(collaborator_error[1], subject)

\* C20: within one call the identity look-up is made at most once per
\* non-blank participant token, the category look-up at most once and the
\* submission at most once, also when one of them fails.
C20_NoRetry ==
  /\ parsed_expense = None => lookups = <<>>
  /\ parsed_expense # None => Len(lookups) <= NumLookups(parsed_expense[1].participants)
  /\ category_lookups <= 1
  /\ submissions <= 1
  /\ (submitted # None /\ ~created) => submissions = 1

C20_Witness ==
  /\ pc = "returned"
  /\ result = Failure("request_error", subject)
  /\ Len(lookups) = 2
  /\ category_lookups = 1
  /\ submissions = 1
  /\ ~created

\* The participants of the running call resolved to nobody: every look-up was
\* made, none raised, and the principal is empty.
ResolvedNobody ==
  /\ parsed_expense # None
  /\ pc # "parsed"
  /\ collaborator_error # Some("identity_lookup")
  /\ _resolve_participants(current_user, parsed_expense[1].participants, 0)
        .resolved_users = <<>>

\* C21: when the resolved participant set is empty, conversion ends in the
\* failure "No valid participants found" and the share computation, given the
\* empty list, raises too; no share line is returned, no category is looked
\* up, no record is built and nothing is submitted.
C21_EmptyResolvedSet ==
  ResolvedNobody =>
    /\ pc = "returned"
    /\ result = Failure("no_participants", subject)
    /\ _create_splitwise_users(current_user, parsed_expense[1], <<>>).raised
    /\ _create_splitwise_users(current_user, parsed_expense[1], <<>>).users = <<>>
    /\ resolved_users = <<>>
    /\ splitwise_users = <<>>
    /\ category_lookups = 0
    /\ splitwise_expense = None
    /\ submissions = 0
    /\ expense_data = None
    /\ ~created

C21_Witness ==
  /\ pc = "returned"
  /\ current_user = EmptyUser
  /\ expense_converter
  /\ parsed_expense # None
  /\ parsed_expense[1].participants = <<tZed, tBlank>>
  /\ Len(lookups) = 1
  /\ result = Failure("no_participants", subject)

\* The optional fields of a SplitwiseExpense.
OptionalKeys == {"date", "category_id", "group_id", "details"}

\* C22: the payload create_expense posts has an optional field exactly when
\* the record has a value for it, with that value (a date is never the empty
\* text); every share line has the keys user_id, paid_share and owed_share and
\* no other; the group sent is the one passed to the call when it is given,
\* else the configured default, and none when there is no default.
C22_PayloadOmitsAbsent ==
  expense_data # None =>
    LET d == expense_data[1]
        e == submitted[1]
    IN  /\ \A k \in OptionalKeys : (k \in DOMAIN d) <=> (e[k] # None)
        /\ \A k \in OptionalKeys \cap DOMAIN d : d[k] = e[k][1]
        /\ "date" \in DOMAIN d => d["date"] # <<>>
        /\ Len(d["users"]) = Len(e.users)
        /\ \A i \in 1..Len(e.users) :
             /\ DOMAIN d["users"][i] = {"user_id", "paid_share", "owed_share"}
             /\ d["users"][i].user_id = e.users[i].user_id
             /\ d["users"][i].paid_share = e.users[i].paid_share
             /\ d["users"][i].owed_share = e.users[i].owed_share
        /\ IF group_id # 0 THEN d["group_id"] = group_id
           ELSE IF default_group_id # None
           THEN d["group_id"] = default_group_id[1]
           ELSE "group_id" \notin DOMAIN d

C22_Witness ==
  /\ pc = "returned"
  /\ expense_data # None
  /\ group_id = 0
  /\ default_group_id = Some(9)
  /\ DOMAIN expense_data[1] =
       {"cost", "description", "currency_code", "group_id", "users", "split_equally"}
  /\ expense_data[1]["group_id"] = 9
  /\ Len(expense_data[1]["users"]) = 3
  /\ "net_balance" \in DOMAIN submitted[1].users[1]

\* C23: on one converter the principal is loaded once, when it is constructed,
\* and no step of a call changes it; the record a conversion returns is the
\* one convert_to_splitwise_expense gives for the candidate, the group and the
\* directory alone, whatever calls came before, so the same candidate converts
\* to the same record every time.
C23_PrincipalLoadedOnce ==
  /\ expense_converter => (principal_loads = 1 /\ current_user = ledger_user)
  /\ (pc = "converted" /\ collaborator_error = None) =>
       splitwise_expense[1] =
         convert_to_splitwise_expense(ledger_user, ParsedExpense(extracted[1])[1],
                                      group_id, default_group_id)

C23_Witness ==
  /\ pc = "converted"
  /\ principal_loads = 1
  /\ current_user = Principal
  /\ parsed_expense[1].participants = <<tJohn, tSarah>>
  /\ parsed_expense[1].category = Some(<<"r", "e", "n", "t">>)
  /\ splitwise_expense[1].category_id = Some(30)
  /\ Len(splitwise_expense[1].users) = 3

\* C24: process_email reports the submission faithfully: a call that created
\* an expense in the ledger returns success, and a call that returned a
\* failure has created none.
C24_FaithfulReport ==
  /\ (pc = "returned" /\ created) => result[1].success
  /\ (pc = "returned" /\ ~result[1].success) => ~created

\* C25: a converter exists only with an access token and a principal loaded
\* from the ledger; while the forwarder has none, a call of process_email can
\* only raise: it returns no result, extracts nothing and makes no look-up and
\* no submission; and while no token is set no request has gone to the ledger.
C25_NoConverterNoCalls ==
  /\ expense_converter =>
       (access_token /\ principal_loads = 1 /\ current_user = ledger_user)
  /\ ~expense_converter =>
       /\ pc \in {"idle", "raised", "auth_failed"}
       /\ result = None
       /\ extracted = None
       /\ parsed_expense = None
       /\ NothingInvoked
  /\ ~access_token =>
       /\ ~expense_converter
       /\ principal_loads = 0
       /\ lookups = <<>>
       /\ category_lookups = 0
       /\ submissions = 0

C25_Witness ==
  /\ pc = "raised"
  /\ access_token
  /\ ~expense_converter
  /\ result = None
  /\ NothingInvoked

\* The errors of e-mail validation, extraction and conversion.
EarlyErrors ==
  {"email_content", "extraction", "candidate_validation", "identity_lookup",
   "no_participants", "no_users"}

\* C26: with a converter, process_email never raises: a call that has ended
\* has returned a result; an exception that reaches process_email (one of the
\* category look-up does not leave the conversion) gives a result with
\* success = False, the error and the subject; and after an error of e-mail
\* validation, extraction or conversion nothing was submitted.
C26_ErrorsBecomeResults ==
  /\ expense_converter => pc # "raised"
  /\ pc = "returned" <=> result # None
  /\ collaborator_error \notin {None, Some("category_lookup")} => result # None
  /\ result # None =>
       /\ result[1].success = FALSE
       /\ result[1].error # ""
       /\ result[1].description =
            (IF subject = <<>> THEN <<"U", "n", "k", "n", "o", "w", "n">> ELSE subject)
       /\ result[1].error \in EarlyErrors =>
            /\ submissions = 0
            /\ submitted = None
            /\ expense_data = None
            /\ ~created
       /\ result[1].error \notin EarlyErrors => submissions = 1

\* C27: the split_equally flag of the record is true exactly when the
\* candidate's policy is equal; for exact and percentage the share lines are
\* those of the equal policy and the flag is false; _create_splitwise_users
\* is entered once for equal and twice (one downgrade) for the other policies.
C27_FlagFollowsPolicy ==
  /\ pc = "shared" =>
       LET out == _create_splitwise_users(current_user, parsed_expense[1],
                                          resolved_users)
           equal_out ==
             _create_splitwise_users(current_user,
                                     [parsed_expense[1] EXCEPT !.split_type = "equal"],
                                     resolved_users)
       IN  /\ out.depth = IF extracted[1].split_type = "equal" THEN 1 ELSE 2
           /\ equal_out.depth = 1
           /\ splitwise_users = equal_out.users
  /\ pc = "converted" =>
       /\ splitwise_expense[1].split_equally <=> extracted[1].split_type = "equal"
       /\ extracted[1].split_type \in {"exact", "percentage"} =>
            /\ ~splitwise_expense[1].split_equally
            /\ splitwise_expense[1].users = splitwise_users

C27_Witness ==
  /\ pc = "converted"
  /\ extracted[1].split_type = "percentage"
  /\ ~splitwise_expense[1].split_equally
  /\ Len(splitwise_expense[1].users) = 3
  /\ TotalMilli = 10000
  /\ splitwise_expense[1].users[3].owed_share = 333

====
